---- MODULE Spec2Model ----
(***************************************************************************)
(* Workout-log parser backend (src/main.py): the module-level startup, the *)
(* POST /parse handler parse_text and the GET / handler root.              *)
(*                                                                         *)
(* Text is a sequence of characters.  A character is a string: one of the  *)
(* named characters below, a JSON structural character, a scalar lexeme    *)
(* ("50", "true", ...) or a run of letters ("Squat"), each standing for    *)
(* the characters it is written with.                                      *)
(***************************************************************************)
EXTENDS Integers, Sequences, FiniteSets, TLC

VARIABLES
    env_key,        \* os.environ.get("OPENAI_API_KEY"): "absent", "empty", "set"
    pydantic_major, \* major version of the installed pydantic (1 or 2)
    proc,           \* the process: "starting", "running", "crashed"
    pc,             \* position of the /parse handler
    req_text,       \* req.text of the request being handled
    text,           \* the local variable text
    messages,       \* messages argument of the outbound call
    calls,          \* outbound calls issued during the request being handled
    events,         \* what the handler has done so far for this request
    raw,            \* the local variable raw
    candidate,      \* the local variable candidate
    response,       \* the HTTP response of the last request
    upstream_failed,\* some /parse request of this process ended in an upstream error
    raw_doc,        \* the JSON value the model meant to emit (environment)
    raw_wrap        \* how the model wrapped it (environment)

vars == <<env_key, pydantic_major, proc, pc, req_text, text, messages, calls,
          events, raw, candidate, response, upstream_failed,
          raw_doc, raw_wrap>>

-----------------------------------------------------------------------------
(* Characters *)

BT == "BACKTICK"
QT == "QUOTE"
SP == "SPACE"
NL == "NEWLINE"
FF == "FORMFEED"

\* str.strip() removes these (Python whitespace)
PyWhitespace == {SP, NL, FF}
\* json.loads skips these between tokens (JSON whitespace); FORMFEED is not one
JsonWhitespace == {SP, NL}
\* characters json.loads rejects inside a string literal
JsonControl == {NL, FF}

-----------------------------------------------------------------------------
(* Decoded JSON values, as json.loads builds them *)

Null == [t |-> "null"]
JBool(b) == [t |-> "bool", v |-> b]
JInt(n) == [t |-> "int", v |-> n]
\* a float, v in tenths: 52.5 is JFloat(525)
JFloat(n) == [t |-> "float", v |-> n]
JStr(s) == [t |-> "str", v |-> s]
JList(xs) == [t |-> "list", v |-> xs]
\* v is a function from keys (character sequences) to values
JDict(f) == [t |-> "dict", v |-> f]

\* scalar lexemes and the values they decode to
ScalarLexemes ==
    { <<"null", Null>>, <<"true", JBool(TRUE)>>, <<"false", JBool(FALSE)>>,
      <<"0", JInt(0)>>, <<"1", JInt(1)>>, <<"2", JInt(2)>>, <<"5", JInt(5)>>,
      <<"6", JInt(6)>>, <<"8", JInt(8)>>, <<"9", JInt(9)>>, <<"50", JInt(50)>>,
      <<"0.0", JFloat(0)>>, <<"8.5", JFloat(85)>>, <<"50.0", JFloat(500)>>,
      <<"52.5", JFloat(525)>> }

IsScalarLexeme(c) == \E p \in ScalarLexemes : p[1] = c
LexemeValue(c) == (CHOOSE p \in ScalarLexemes : p[1] = c)[2]

-----------------------------------------------------------------------------
(* json.loads *)

NoParse == [ok |-> FALSE, val |-> Null, next |-> 0]
Parsed(v, n) == [ok |-> TRUE, val |-> v, next |-> n]

RECURSIVE SkipWs(_, _)
SkipWs(s, i) ==
    IF i <= Len(s) /\ s[i] \in JsonWhitespace THEN SkipWs(s, i + 1) ELSE i

RECURSIVE StringEnd(_, _)
\* index of the closing quote of the string literal whose content starts at i; 0 if none
StringEnd(s, i) ==
    IF i > Len(s) THEN 0
    ELSE IF s[i] = QT THEN i
    ELSE IF s[i] \in JsonControl THEN 0
    ELSE StringEnd(s, i + 1)

ParseString(s, i) ==
    LET j == StringEnd(s, i)
    IN  IF j = 0 THEN NoParse ELSE Parsed(JStr(SubSeq(s, i, j - 1)), j + 1)

RECURSIVE ParseValue(_, _), ParseElems(_, _, _), ParseMembers(_, _, _)

ParseValue(s, i) ==
    LET j == SkipWs(s, i)
    IN  IF j > Len(s) THEN NoParse
        ELSE IF s[j] = "[" THEN
            LET k == SkipWs(s, j + 1)
            IN  IF k <= Len(s) /\ s[k] = "]" THEN Parsed(JList(<<>>), k + 1)
                ELSE ParseElems(s, k, <<>>)
        ELSE IF s[j] = "{" THEN
            LET k == SkipWs(s, j + 1)
            IN  IF k <= Len(s) /\ s[k] = "}" THEN Parsed(JDict(<<>>), k + 1)
                ELSE ParseMembers(s, k, <<>>)
        ELSE IF s[j] = QT THEN ParseString(s, j + 1)
        ELSE IF IsScalarLexeme(s[j]) THEN Parsed(LexemeValue(s[j]), j + 1)
        ELSE NoParse

ParseElems(s, i, acc) ==
    LET r == ParseValue(s, i)
        k == SkipWs(s, r.next)
    IN  IF ~r.ok \/ k > Len(s) THEN NoParse
        ELSE IF s[k] = "," THEN ParseElems(s, k + 1, Append(acc, r.val))
        ELSE IF s[k] = "]" THEN Parsed(JList(Append(acc, r.val)), k + 1)
        ELSE NoParse

ParseMembers(s, i, acc) ==
    LET j == SkipWs(s, i)
        key == IF j <= Len(s) /\ s[j] = QT THEN ParseString(s, j + 1) ELSE NoParse
        c == SkipWs(s, key.next)
        r == IF key.ok /\ c <= Len(s) /\ s[c] = ":" THEN ParseValue(s, c + 1) ELSE NoParse
        k == SkipWs(s, r.next)
        \* a repeated key keeps its last value
        got == (key.val.v :> r.val) @@ acc
    IN  IF ~r.ok \/ k > Len(s) THEN NoParse
        ELSE IF s[k] = "," THEN ParseMembers(s, k + 1, got)
        ELSE IF s[k] = "}" THEN Parsed(JDict(got), k + 1)
        ELSE NoParse

\* json.loads(s): [ok |-> FALSE] stands for the JSONDecodeError it raises
json_loads(s) ==
    LET r == ParseValue(s, 1)
    IN  IF r.ok /\ SkipWs(s, r.next) > Len(s) THEN [ok |-> TRUE, val |-> r.val]
        ELSE [ok |-> FALSE, val |-> Null]

-----------------------------------------------------------------------------
(* str.strip, str.startswith, str.split *)

RECURSIVE lstrip(_)
lstrip(s) ==
    IF s # <<>> /\ Head(s) \in PyWhitespace THEN lstrip(Tail(s)) ELSE s

RECURSIVE rstrip(_)
rstrip(s) ==
    IF s # <<>> /\ s[Len(s)] \in PyWhitespace THEN rstrip(SubSeq(s, 1, Len(s) - 1)) ELSE s

\* strip forgotten: the text is used as it came
no_strip(s) == s

\* only the left end is trimmed
lstrip_only(s) == lstrip(s)

strip(s) == rstrip(lstrip(s))

Fence == <<BT, BT, BT>>

startswith(s, prefix) ==
    Len(s) >= Len(prefix) /\ SubSeq(s, 1, Len(prefix)) = prefix

\* smallest index >= i at which sep occurs in s; 0 if there is none
find(s, sep, i) ==
    LET hits == {j \in i..(Len(s) - Len(sep) + 1) : SubSeq(s, j, j + Len(sep) - 1) = sep}
    IN  IF hits = {} THEN 0 ELSE CHOOSE j \in hits : \A k \in hits : j <= k

RECURSIVE split(_, _, _)
\* s.split(sep, maxsplit)
split(s, sep, maxsplit) ==
    LET j == find(s, sep, 1)
    IN  IF maxsplit = 0 \/ j = 0 THEN <<s>>
        ELSE <<SubSeq(s, 1, j - 1)>>
             \o split(SubSeq(s, j + Len(sep), Len(s)), sep, maxsplit - 1)

-----------------------------------------------------------------------------
(* ParsedSet: the pydantic model and its validation (pydantic's lax mode)    *)

Fields ==
    <<"date", "exercise_name", "weight", "reps_unassisted", "reps_assisted",
      "reps_total", "tempo_notes", "injury_flag", "injury_notes", "equipment",
      "source_line", "notes">>

FieldNames == {Fields[i] : i \in DOMAIN Fields}

\* the annotation of each field
FieldType(f) ==
    CASE f = "exercise_name" -> "str"
      [] f = "weight" -> "float"
      [] f \in {"reps_unassisted", "reps_assisted", "reps_total"} -> "int"
      [] f = "injury_flag" -> "bool"
      [] OTHER -> "Optional[str]"

\* Optional[str] without "=" has the default None in pydantic 1 and is required in pydantic 2
HasDefault(f, major) ==
    \/ f \in {"tempo_notes", "injury_flag", "injury_notes", "equipment", "source_line", "notes"}
    \/ f = "date" /\ major = 1

Default(f) ==
    CASE f = "date" -> Null
      [] f = "injury_flag" -> JBool(FALSE)
      [] OTHER -> JStr(<<>>)

Invalid == [ok |-> FALSE, val |-> Null]
Valid(v) == [ok |-> TRUE, val |-> v]

IsNumberLexeme(c) == IsScalarLexeme(c) /\ LexemeValue(c).t \in {"int", "float"}

\* str(v) of a number or bool, as pydantic 1 coerces it for a str field
PyStr(v) ==
    IF v.t = "bool" THEN JStr(<<IF v.v THEN "True" ELSE "False">>)
    ELSE JStr(<<(CHOOSE p \in ScalarLexemes : p[2] = v)[1]>>)

ValidateFloat(v) ==
    CASE v.t = "float" -> Valid(v)
      [] v.t = "int" -> Valid(JFloat(10 * v.v))
      [] v.t = "bool" -> Valid(JFloat(IF v.v THEN 10 ELSE 0))
      [] v.t = "str" ->
            IF Len(v.v) = 1 /\ IsNumberLexeme(v.v[1])
            THEN LET n == LexemeValue(v.v[1])
                 IN  Valid(IF n.t = "int" THEN JFloat(10 * n.v) ELSE n)
            ELSE Invalid
      [] OTHER -> Invalid

\* a float with a fraction is truncated by pydantic 1 and refused by pydantic 2
ValidateInt(v, major) ==
    CASE v.t = "int" -> Valid(v)
      [] v.t = "bool" -> Valid(JInt(IF v.v THEN 1 ELSE 0))
      [] v.t = "float" ->
            IF v.v % 10 = 0 \/ major = 1 THEN Valid(JInt(v.v \div 10)) ELSE Invalid
      [] v.t = "str" ->
            IF Len(v.v) = 1 /\ IsNumberLexeme(v.v[1])
            THEN LET n == LexemeValue(v.v[1])
                 IN  IF n.t = "int" THEN Valid(n)
                     ELSE IF major = 2 /\ n.v % 10 = 0 THEN Valid(JInt(n.v \div 10))
                     ELSE Invalid
            ELSE Invalid
      [] OTHER -> Invalid

\* pydantic 1 turns a number into its text; pydantic 2 refuses it
ValidateStr(v, major) ==
    CASE v.t = "str" -> Valid(v)
      [] v.t \in {"int", "float", "bool"} -> IF major = 1 THEN Valid(PyStr(v)) ELSE Invalid
      [] OTHER -> Invalid

ValidateBool(v) ==
    CASE v.t = "bool" -> Valid(v)
      [] v.t = "int" -> IF v.v \in {0, 1} THEN Valid(JBool(v.v = 1)) ELSE Invalid
      [] v.t = "float" -> IF v.v \in {0, 10} THEN Valid(JBool(v.v = 10)) ELSE Invalid
      [] v.t = "str" ->
            IF v.v \in {<<"true">>, <<"1">>} THEN Valid(JBool(TRUE))
            ELSE IF v.v \in {<<"false">>, <<"0">>} THEN Valid(JBool(FALSE))
            ELSE Invalid
      [] OTHER -> Invalid

ValidateField(f, v, major) ==
    CASE FieldType(f) = "float" -> ValidateFloat(v)
      [] FieldType(f) = "int" -> ValidateInt(v, major)
      [] FieldType(f) = "str" -> ValidateStr(v, major)
      [] FieldType(f) = "bool" -> ValidateBool(v)
      [] OTHER -> IF v.t = "null" THEN Valid(Null) ELSE ValidateStr(v, major)

\* what field f of ParsedSet(**item) becomes, item a dict
FieldOf(item, f, major) ==
    IF <<f>> \in DOMAIN item.v THEN ValidateField(f, item.v[<<f>>], major)
    ELSE IF HasDefault(f, major) THEN Valid(Default(f))
    ELSE Invalid

\* ParsedSet(**item): [ok |-> FALSE] stands for the exception it raises
\* (TypeError when item is no mapping, ValidationError otherwise); keys that
\* are no field of the model are ignored
ParsedSet(item, major) ==
    IF item.t # "dict" THEN [ok |-> FALSE, val |-> <<>>]
    ELSE IF \E f \in FieldNames : ~FieldOf(item, f, major).ok THEN [ok |-> FALSE, val |-> <<>>]
    ELSE [ok |-> TRUE, val |-> [f \in FieldNames |-> FieldOf(item, f, major).val]]

-----------------------------------------------------------------------------
(* parse_text: the response normaliser, lines 128-162 *)

\* lines 136-141: cleaned, the text the second decoding is given
StripFence(r) ==
    LET cleaned == strip(r)
    IN  IF startswith(cleaned, Fence) THEN split(cleaned, Fence, 2)[2] ELSE cleaned

\* lines 131-145: strict decoding, then the code-fence fallback, then {"sets": []}
DecodeRaw(r) ==
    LET strict == json_loads(r)
        second == json_loads(StripFence(r))
    IN  IF strict.ok THEN strict.val
        ELSE IF second.ok THEN second.val
        ELSE JDict(<<"sets">> :> JList(<<>>))

\* bool(v)
Truthy(v) ==
    CASE v.t = "null" -> FALSE
      [] v.t = "bool" -> v.v
      [] v.t \in {"int", "float"} -> v.v # 0
      [] v.t \in {"str", "list"} -> Len(v.v) > 0
      [] OTHER -> DOMAIN v.v # {}

\* the bare-array fallback left out
CandidateNoBareArray(obj) ==
    IF obj.t = "dict" /\ <<"sets">> \in DOMAIN obj.v THEN
        IF Truthy(obj.v[<<"sets">>]) THEN obj.v[<<"sets">>] ELSE JList(<<>>)
    ELSE JList(<<>>)

\* lines 147-151
Candidate(obj) ==
    IF obj.t = "dict" /\ <<"sets">> \in DOMAIN obj.v THEN
        IF Truthy(obj.v[<<"sets">>]) THEN obj.v[<<"sets">>] ELSE JList(<<>>)
    ELSE IF obj.t = "list" THEN obj
    ELSE JList(<<>>)

RECURSIVE KeySeq(_)
KeySeq(keys) ==
    IF keys = {} THEN <<>>
    ELSE LET k == CHOOSE x \in keys : TRUE IN <<JStr(k)>> \o KeySeq(keys \ {k})

\* "for item in c": the items, or [ok |-> FALSE] for the TypeError of a value
\* that cannot be iterated
Iterate(c) ==
    CASE c.t = "list" -> [ok |-> TRUE, items |-> c.v]
      [] c.t = "str" -> [ok |-> TRUE, items |-> [i \in 1..Len(c.v) |-> JStr(<<c.v[i]>>)]]
      [] c.t = "dict" -> [ok |-> TRUE, items |-> KeySeq(DOMAIN c.v)]
      [] OTHER -> [ok |-> FALSE, items |-> <<>>]

RECURSIVE ValidateItemsAbort(_, _)
\* the loop leaves at the first item that fails (break for continue)
ValidateItemsAbort(items, major) ==
    IF items = <<>> THEN <<>>
    ELSE LET r == ParsedSet(Head(items), major)
         IN  IF r.ok THEN <<r.val>> \o ValidateItemsAbort(Tail(items), major) ELSE <<>>

RECURSIVE ValidateItems(_, _)
\* lines 154-160: the loop body appends, or skips the item on any exception
ValidateItems(items, major) ==
    IF items = <<>> THEN <<>>
    ELSE LET r == ParsedSet(Head(items), major)
         IN  (IF r.ok THEN <<r.val>> ELSE <<>>) \o ValidateItems(Tail(items), major)

NoResponse == [status |-> 0, kind |-> "none", sets |-> <<>>]
\* ParseResponse(sets=...) returned by the handler
ParseResponse(sets) == [status |-> 200, kind |-> "ParseResponse", sets |-> sets]
\* an exception leaving the handler: the framework answers 500 and the process goes on
InternalServerError == [status |-> 500, kind |-> "Internal Server Error", sets |-> <<>>]
\* line 171
RootResponse == [status |-> 200, kind |-> "root", sets |-> <<>>]

\* the second json.loads not guarded: its error leaves the handler
NormalizeRawUncaught(r, major) ==
    LET it == Iterate(Candidate(DecodeRaw(r)))
    IN  IF ~json_loads(r).ok /\ ~json_loads(StripFence(r)).ok THEN InternalServerError
        ELSE IF it.ok THEN ParseResponse(ValidateItems(it.items, major))
        ELSE InternalServerError

\* lines 131-162 as a function of raw
NormalizeRaw(r, major) ==
    LET it == Iterate(Candidate(DecodeRaw(r)))
    IN  IF it.ok THEN ParseResponse(ValidateItems(it.items, major))
        ELSE InternalServerError

-----------------------------------------------------------------------------
(* The environment: request texts and what the model answers *)

MaxTextLen == 3
MaxElems == 2

TextChars == {SP, NL, "a"}

RECURSIVE TextsUpTo(_)
TextsUpTo(n) ==
    IF n = 0 THEN {<<>>}
    ELSE TextsUpTo(n - 1) \cup {Append(t, c) : t \in TextsUpTo(n - 1), c \in TextChars}

\* ParseRequest.text
Texts == TextsUpTo(MaxTextLen)

RECURSIVE MkDict(_)
MkDict(pairs) ==
    IF pairs = <<>> THEN <<>>
    ELSE (<<pairs[1][1]>> :> pairs[1][2]) @@ MkDict(Tail(pairs))

Obj(pairs) == JDict(MkDict(pairs))
Word(w) == JStr(<<w>>)

\* the model response of the spec's example
ExampleSet ==
    Obj(<< <<"date", JStr(<<>>)>>, <<"exercise_name", Word("DB Bench Press")>>,
           <<"weight", JInt(50)>>, <<"reps_unassisted", JInt(6)>>,
           <<"reps_assisted", JInt(2)>>, <<"reps_total", JInt(8)>>,
           <<"tempo_notes", Word("3-1-1")>>, <<"injury_flag", JBool(TRUE)>>,
           <<"injury_notes", Word("twinge in shoulder")>>, <<"equipment", Word("DB")>>,
           <<"source_line", Word("DB Bench 50x8(2) 3-1-1 felt a twinge in shoulder")>>,
           <<"notes", JStr(<<>>)>> >>)

\* the required fields only
MinimalSet ==
    Obj(<< <<"date", Word("2024-01-05")>>, <<"exercise_name", Word("Squat")>>,
           <<"weight", JFloat(525)>>, <<"reps_unassisted", JInt(5)>>,
           <<"reps_assisted", JInt(0)>>, <<"reps_total", JInt(5)>> >>)

\* {"exercise_name": "Squat"}, the spec's second example
SquatOnly == Obj(<< <<"exercise_name", Word("Squat")>> >>)

\* the weight given as the string "50"
StringWeight ==
    Obj(<< <<"date", JStr(<<>>)>>, <<"exercise_name", Word("Row")>>,
           <<"weight", Word("50")>>, <<"reps_unassisted", JInt(8)>>,
           <<"reps_assisted", JInt(0)>>, <<"reps_total", JInt(8)>> >>)

\* a note that holds three backticks, and a key the schema does not have
TicksNote ==
    Obj(<< <<"date", Null>>, <<"exercise_name", Word("Curl")>>,
           <<"weight", JInt(9)>>, <<"reps_unassisted", JInt(8)>>,
           <<"reps_assisted", JInt(0)>>, <<"reps_total", JInt(8)>>,
           <<"notes", JStr(<<"see", SP, BT, BT, BT>>)>>, <<"rpe", JInt(9)>> >>)

\* no date key
NoDate ==
    Obj(<< <<"exercise_name", Word("Press")>>,
           <<"weight", JInt(50)>>, <<"reps_unassisted", JInt(5)>>,
           <<"reps_assisted", JInt(1)>>, <<"reps_total", JInt(6)>> >>)

\* reps_total is a list
BadReps ==
    Obj(<< <<"date", JStr(<<>>)>>, <<"exercise_name", Word("Lunge")>>,
           <<"weight", JInt(50)>>, <<"reps_unassisted", JInt(8)>>,
           <<"reps_assisted", JInt(0)>>, <<"reps_total", JList(<<JInt(8)>>)>> >>)

\* reps_total is 8.5: pydantic 1 makes it 8, pydantic 2 refuses the element
FractionalReps ==
    Obj(<< <<"date", JStr(<<>>)>>, <<"exercise_name", Word("Dip")>>,
           <<"weight", JInt(0)>>, <<"reps_unassisted", JInt(8)>>,
           <<"reps_assisted", JInt(0)>>, <<"reps_total", JFloat(85)>> >>)

\* what the model may put in the array
Elems ==
    {ExampleSet, MinimalSet, SquatOnly, StringWeight, TicksNote, NoDate, BadReps,
     FractionalReps, JInt(5)}

RECURSIVE ListsUpTo(_)
ListsUpTo(n) ==
    IF n = 0 THEN {<<>>}
    ELSE ListsUpTo(n - 1) \cup {Append(l, e) : l \in ListsUpTo(n - 1), e \in Elems}

ElemLists == ListsUpTo(MaxElems)

Wrapped(v) == JDict(<<"sets">> :> v)

\* values of "sets" that are no array
OddSets ==
    {Null, JBool(TRUE), JBool(FALSE), JInt(0), JInt(5), JFloat(0), JFloat(525),
     JStr(<<>>), Word("abc"), JDict(<<>>), SquatOnly}

\* the JSON values the model may emit
Docs ==
    {Wrapped(JList(l)) : l \in ElemLists} \cup {JList(l) : l \in ElemLists}
    \cup {Wrapped(v) : v \in OddSets}
    \cup {Null, JBool(TRUE), JInt(5), Word("abc"), JStr(Fence), JDict(<<>>),
          Obj(<< <<"other", JList(<<MinimalSet>>)>> >>), MinimalSet}

KeyOrder == <<"sets", "other">> \o Fields \o <<"rpe">>

RECURSIVE dumps(_), dumps_items(_), dumps_members(_, _)

\* the JSON text of a value
dumps(v) ==
    CASE v.t = "str" -> <<QT>> \o v.v \o <<QT>>
      [] v.t = "list" -> <<"[">> \o dumps_items(v.v) \o <<"]">>
      [] v.t = "dict" ->
            <<"{">> \o dumps_members(v.v, SelectSeq(KeyOrder, LAMBDA k : <<k>> \in DOMAIN v.v))
            \o <<"}">>
      [] OTHER -> <<(CHOOSE p \in ScalarLexemes : p[2] = v)[1]>>

dumps_items(xs) ==
    IF xs = <<>> THEN <<>>
    ELSE dumps(Head(xs)) \o (IF Len(xs) > 1 THEN <<",", SP>> \o dumps_items(Tail(xs)) ELSE <<>>)

dumps_members(d, keys) ==
    IF keys = <<>> THEN <<>>
    ELSE <<QT, Head(keys), QT, ":">> \o dumps(d[<<Head(keys)>>])
         \o (IF Len(keys) > 1 THEN <<",", SP>> \o dumps_members(d, Tail(keys)) ELSE <<>>)

\* the wrappings with a fence at the start of the text and the payload right after it
FenceWraps == {"fence", "fence_nl", "fence_open", "fence_then_prose"}

Wraps ==
    {"plain", "padded", "formfeed", "fence_lang", "prose_then_fence", "truncated"}
    \cup FenceWraps

\* message.content for a value and a wrapping
Render(d, w) ==
    LET j == dumps(d)
    IN  CASE w = "plain" -> j
          [] w = "padded" -> <<SP, NL>> \o j \o <<NL>>
          [] w = "formfeed" -> <<FF>> \o j \o <<FF>>
          [] w = "fence" -> Fence \o j \o Fence
          [] w = "fence_nl" -> Fence \o <<NL>> \o j \o <<NL>> \o Fence \o <<NL>>
          [] w = "fence_open" -> Fence \o j
          [] w = "fence_then_prose" -> <<NL>> \o Fence \o j \o Fence \o <<SP, "Done.">>
          [] w = "fence_lang" -> Fence \o <<"json", NL>> \o j \o <<NL>> \o Fence
          [] w = "prose_then_fence" -> <<"Here:", SP>> \o Fence \o j \o Fence
          [] w = "truncated" -> SubSeq(j, 1, Len(j) - 1)
          [] OTHER -> <<>>

\* every answer of the model: a value and a wrapping, or no content at all
RawInputs ==
    {[doc |-> d, wrap |-> w] : d \in Docs, w \in Wraps} \cup {[doc |-> Null, wrap |-> "none"]}

\* the answers the service-level specification draws from
ServiceInputs ==
    {[doc |-> d, wrap |-> w] :
        d \in {Wrapped(JList(<<ExampleSet, SquatOnly>>)), Wrapped(JInt(5)), JList(<<>>)},
        w \in {"plain", "fence", "truncated"}}
    \cup {[doc |-> Null, wrap |-> "none"]}

-----------------------------------------------------------------------------
(* The process *)

\* the fixed instruction block, lines 51-103
PROMPT == <<"PROMPT">>

Init ==
    /\ env_key \in {"absent", "empty", "set"}
    /\ pydantic_major \in {1, 2}
    /\ proc = "starting"
    /\ pc = "idle"
    /\ req_text = <<>>
    /\ text = <<>>
    /\ messages = <<>>
    /\ calls = 0
    /\ events = <<>>
    /\ raw = <<>>
    /\ candidate = JList(<<>>)
    /\ response = NoResponse
    /\ upstream_failed = FALSE
    /\ raw_doc = Null
    /\ raw_wrap = "none"

\* the check written "is None": an empty key passes
StartupNoneOnly ==
    /\ proc = "starting"
    /\ proc' = IF env_key # "absent" THEN "running" ELSE "crashed"
    /\ UNCHANGED <<env_key, pydantic_major, pc, req_text, text, messages, calls, events,
                   raw, candidate, response, upstream_failed, raw_doc, raw_wrap>>

\* lines 13-19: the module body; "not OPENAI_API_KEY" holds for None and for ""
Startup ==
    /\ proc = "starting"
    /\ proc' = IF env_key = "set" THEN "running" ELSE "crashed"
    /\ UNCHANGED <<env_key, pydantic_major, pc, req_text, text, messages, calls, events,
                   raw, candidate, response, upstream_failed, raw_doc, raw_wrap>>

\* lines 113-115: text = req.text.strip(); an empty text is answered at once
ParseTextBegin(t) ==
    /\ proc = "running"
    /\ pc = "idle"
    /\ req_text' = t
    /\ text' = strip(t)
    /\ IF strip(t) = <<>>
       THEN pc' = "idle" /\ response' = ParseResponse(<<>>)
       ELSE pc' = "call" /\ response' = NoResponse
    /\ messages' = <<>>
    /\ calls' = 0
    /\ events' = <<"request">>
    /\ raw' = <<>>
    /\ candidate' = JList(<<>>)
    /\ raw_doc' = Null
    /\ raw_wrap' = "none"
    /\ UNCHANGED <<env_key, pydantic_major, proc, upstream_failed>>

\* lines 118-126: the outbound call is sent
CallOpenAI ==
    /\ pc = "call"
    /\ messages' = << [role |-> "system", content |-> PROMPT],
                      [role |-> "user", content |-> text] >>
    /\ calls' = calls + 1
    /\ events' = Append(events, "call")
    /\ pc' = "await"
    /\ UNCHANGED <<env_key, pydantic_major, proc, req_text, text, raw, candidate,
                   response, upstream_failed, raw_doc, raw_wrap>>

\* line 128: the call returns; raw = content or ""
UpstreamReturn(in) ==
    /\ pc = "await"
    /\ raw' = Render(in.doc, in.wrap)
    /\ raw_doc' = in.doc
    /\ raw_wrap' = in.wrap
    /\ events' = Append(events, "return")
    /\ pc' = "normalize"
    /\ UNCHANGED <<env_key, pydantic_major, proc, req_text, text, messages, calls,
                   candidate, response, upstream_failed>>

\* the error caught and the call sent again
UpstreamRaiseRetry ==
    /\ pc = "await"
    /\ calls < 2
    /\ events' = Append(events, "raise")
    /\ pc' = "call"
    /\ UNCHANGED <<env_key, pydantic_major, proc, req_text, text, messages, calls,
                   raw, candidate, response, upstream_failed, raw_doc, raw_wrap>>

\* the error caught and answered as an empty result
UpstreamRaiseSwallowed ==
    /\ pc = "await"
    /\ response' = ParseResponse(<<>>)
    /\ upstream_failed' = TRUE
    /\ events' = Append(events, "raise")
    /\ pc' = "idle"
    /\ UNCHANGED <<env_key, pydantic_major, proc, req_text, text, messages, calls,
                   raw, candidate, raw_doc, raw_wrap>>

\* lines 118-126: the call raises; nothing in parse_text catches it
UpstreamRaise ==
    /\ pc = "await"
    /\ response' = InternalServerError
    /\ upstream_failed' = TRUE
    /\ events' = Append(events, "raise")
    /\ pc' = "idle"
    /\ UNCHANGED <<env_key, pydantic_major, proc, req_text, text, messages, calls,
                   raw, candidate, raw_doc, raw_wrap>>

\* lines 131-162
Normalize ==
    /\ pc = "normalize"
    /\ candidate' = Candidate(DecodeRaw(raw))
    /\ response' = NormalizeRaw(raw, pydantic_major)
    /\ events' = Append(events, "normalize")
    /\ pc' = "idle"
    /\ UNCHANGED <<env_key, pydantic_major, proc, req_text, text, messages, calls,
                   raw, upstream_failed, raw_doc, raw_wrap>>

\* lines 169-171
Root ==
    /\ proc = "running"
    /\ pc = "idle"
    /\ response' = RootResponse
    /\ UNCHANGED <<env_key, pydantic_major, proc, pc, req_text, text, messages, calls,
                   events, raw, candidate, upstream_failed, raw_doc, raw_wrap>>

Next ==
    \/ Startup
    \/ \E t \in Texts : ParseTextBegin(t)
    \/ CallOpenAI
    \/ \E in \in ServiceInputs : UpstreamReturn(in)
    \/ UpstreamRaise
    \/ Normalize
    \/ Root

Spec == Init /\ [][Next]_vars

\* the normaliser alone: the state after line 128, for every answer of the model
InitNorm ==
    /\ env_key = "set"
    /\ pydantic_major \in {1, 2}
    /\ proc = "running"
    /\ pc = "normalize"
    /\ req_text = <<"a">>
    /\ text = <<"a">>
    /\ messages = << [role |-> "system", content |-> PROMPT],
                     [role |-> "user", content |-> <<"a">>] >>
    /\ calls = 1
    /\ events = <<"request", "call", "return">>
    /\ \E in \in RawInputs :
          raw = Render(in.doc, in.wrap) /\ raw_doc = in.doc /\ raw_wrap = in.wrap
    /\ candidate = JList(<<>>)
    /\ response = NoResponse
    /\ upstream_failed = FALSE

NextNorm == Normalize

SpecNorm == InitNorm /\ [][NextNorm]_vars

-----------------------------------------------------------------------------
(* Properties *)

AllWhitespace(t) == \A i \in 1..Len(t) : t[i] \in PyWhitespace

\* a /parse request has been taken up since the process started
Requested == events # <<>>

LastEvent == IF events = <<>> THEN "none" ELSE events[Len(events)]

Occurrences(e) == Cardinality({i \in 1..Len(events) : events[i] = e})

\* C1: a /parse request whose text is empty or all whitespace is answered with
\* an empty sets list and no outbound call is made for it.
C1_EmptyTextNoCall ==
    (Requested /\ AllWhitespace(req_text)) =>
        /\ pc = "idle"
        /\ calls = 0
        /\ messages = <<>>
        /\ events = <<"request">>
        /\ response \in {ParseResponse(<<>>), RootResponse}

C1_Witness ==
    /\ Requested
    /\ req_text = <<SP, NL>>
    /\ response = ParseResponse(<<>>)
    /\ calls = 0

\* C7: a process started with OPENAI_API_KEY absent or empty fails at startup
\* and never handles a /parse or / request.
C7_NoKeyNoService ==
    (env_key # "set") =>
        /\ proc # "running"
        /\ pc = "idle"
        /\ ~Requested
        /\ response = NoResponse

C7_Witness == env_key = "empty" /\ proc = "crashed"

\* C9 as claimed: the outbound call carries the system message PROMPT and a
\* user message whose content is exactly the request's text, whitespace at
\* both ends included.
C9_UserMessageIsRequestText ==
    (calls > 0) =>
        messages = << [role |-> "system", content |-> PROMPT],
                      [role |-> "user", content |-> req_text] >>

\* c is t without the whitespace at its two ends
IsTrimOf(c, t) ==
    \E i \in 0..Len(t) : \E j \in i..Len(t) :
        /\ c = SubSeq(t, i + 1, j)
        /\ \A k \in 1..i : t[k] \in PyWhitespace
        /\ \A k \in (j + 1)..Len(t) : t[k] \in PyWhitespace
        /\ c # <<>> => (c[1] \notin PyWhitespace /\ c[Len(c)] \notin PyWhitespace)

\* C9 amended: the outbound call carries exactly two messages, the system
\* message PROMPT and a user message whose content is the request's text with
\* the whitespace at its two ends removed and everything between unchanged.
C9_UserMessageIsTrimmedText ==
    (calls > 0) =>
        /\ Len(messages) = 2
        /\ messages[1] = [role |-> "system", content |-> PROMPT]
        /\ messages[2].role = "user"
        /\ messages[2].content # <<>>
        /\ IsTrimOf(messages[2].content, req_text)

C9_Witness ==
    /\ calls = 1
    /\ req_text = <<SP, "a", NL>>
    /\ messages[2].content = <<"a">>

\* C10: a request whose trimmed text is not empty issues exactly one outbound
\* call, before any decoding or validation, and neither a failed call nor a
\* malformed answer makes it call again.
C10_ExactlyOneCall ==
    (Requested /\ ~AllWhitespace(req_text)) =>
        /\ calls <= 1
        /\ Occurrences("call") = calls
        /\ pc = "call" => (calls = 0 /\ events = <<"request">>)
        /\ pc # "call" => (calls = 1 /\ events[2] = "call")
        /\ LastEvent = "raise" => (pc = "idle" /\ events = <<"request", "call", "raise">>)
        /\ LastEvent = "normalize" =>
              (pc = "idle" /\ events = <<"request", "call", "return", "normalize">>)

C10_Witness ==
    /\ LastEvent = "normalize"
    /\ raw_wrap = "truncated"
    /\ calls = 1
    /\ response = ParseResponse(<<>>)

\* C6: when the outbound call raises, the process stays up and takes later
\* requests, and the request is answered with an error that is no
\* success-shaped {sets: [...]} payload.
C6_UpstreamErrorIsDistinct ==
    /\ upstream_failed => proc = "running"
    /\ LastEvent = "raise" =>
          /\ pc = "idle"
          /\ response \in {InternalServerError, RootResponse}
          /\ response.kind # "root" => (response.status = 500 /\ response.kind # "ParseResponse")
          /\ ENABLED (\E t \in Texts : ParseTextBegin(t))

C6_Witness ==
    /\ upstream_failed
    /\ LastEvent = "normalize"
    /\ response.status = 200
    /\ Len(response.sets) = 1

\* the handler has run lines 131-162 on raw
Normalized == LastEvent = "normalize"

\* raw is the JSON text of raw_doc, at most with JSON whitespace around it
PlainJson == raw_wrap \in {"plain", "padded"}

\* C5 as claimed: whatever text the model returns, normalisation ends with a
\* (possibly empty) sequence of validated records and raises nothing.
C5_NormalizeNeverRaises ==
    Normalized => (response.kind = "ParseResponse" /\ response.status = 200)

\* the values Python takes for false
Falsy ==
    {Null, JBool(FALSE), JInt(0), JFloat(0), JStr(<<>>), JList(<<>>), JDict(<<>>)}

HasSets(obj) == obj.t = "dict" /\ <<"sets">> \in DOMAIN obj.v

\* C8 as claimed: for an object with a "sets" key the candidate list is that
\* key's value, for an array it is the array, in every other case it is empty.
C8_CandidateIsSetsValue ==
    Normalized =>
        LET obj == DecodeRaw(raw)
        IN  /\ HasSets(obj) => candidate = obj.v[<<"sets">>]
            /\ (~HasSets(obj) /\ obj.t = "list") => candidate = obj
            /\ (~HasSets(obj) /\ obj.t # "list") => candidate = JList(<<>>)

\* C8 amended: for an object with a "sets" key the candidate list is that
\* key's value, or the empty list when that value is falsy (null, false, 0,
\* 0.0, "", [], {}); for an array it is the array; in every other case it is
\* empty.
C8_CandidateIsSetsValueOrEmpty ==
    Normalized =>
        LET obj == DecodeRaw(raw)
        IN  /\ PlainJson => obj = raw_doc
            /\ (HasSets(obj) /\ obj.v[<<"sets">>] \notin Falsy) => candidate = obj.v[<<"sets">>]
            /\ (HasSets(obj) /\ obj.v[<<"sets">>] \in Falsy) => candidate = JList(<<>>)
            /\ (~HasSets(obj) /\ obj.t = "list") => candidate = obj
            /\ (~HasSets(obj) /\ obj.t # "list") => candidate = JList(<<>>)

C8_Witness ==
    /\ Normalized
    /\ raw_wrap = "plain"
    /\ raw_doc = JList(<<MinimalSet, SquatOnly>>)
    /\ candidate = raw_doc
    /\ Len(response.sets) = 1

\* C4: an answer that is no valid JSON, and still none after trimming and
\* fence-stripping, is answered normally with an empty sets list.
C4_NotJsonGivesEmpty ==
    Normalized =>
        /\ (~json_loads(raw).ok /\ ~json_loads(StripFence(raw)).ok) =>
              response = ParseResponse(<<>>)
        /\ raw_wrap \in {"truncated", "prose_then_fence", "none"} =>
              response = ParseResponse(<<>>)

C4_Witness ==
    /\ Normalized
    /\ raw_wrap = "truncated"
    /\ raw_doc = JDict(<<"sets">> :> JList(<<ExampleSet>>))
    /\ ~json_loads(raw).ok
    /\ response = ParseResponse(<<>>)

\* C3 as claimed: a JSON payload wrapped in triple-backtick fences gives the
\* sets list the payload gives when it is not wrapped.
C3_FenceRoundTrip ==
    (Normalized /\ raw_wrap \in FenceWraps) =>
        response = NormalizeRaw(dumps(raw_doc), pydantic_major)

\* a number in tenths
Tenths(v) == IF v.t = "int" THEN 10 * v.v ELSE v.v

\* Python's ==: 50 and 50.0 are the same value
SameValue(a, b) ==
    IF a.t \in {"int", "float"} /\ b.t \in {"int", "float"} THEN Tenths(a) = Tenths(b)
    ELSE a = b

\* v is a JSON value of the type field f is declared with
HasDeclaredType(f, v) ==
    CASE FieldType(f) = "str" -> v.t = "str"
      [] FieldType(f) = "float" -> v.t \in {"int", "float"}
      [] FieldType(f) = "int" -> v.t = "int"
      [] FieldType(f) = "bool" -> v.t = "bool"
      [] OTHER -> v.t \in {"str", "null"}

\* the fields without a default; date is one of them under pydantic 2 only
RequiredFields(major) ==
    {"exercise_name", "weight", "reps_unassisted", "reps_assisted", "reps_total"}
    \cup (IF major = 2 THEN {"date"} ELSE {})

Has(e, f) == <<f>> \in DOMAIN e.v

IsRecord(e, major) == e.t = "dict" /\ \A f \in RequiredFields(major) : Has(e, f)

\* e satisfies the ParsedSet schema
SatisfiesSchema(e, major) ==
    /\ IsRecord(e, major)
    /\ \A f \in FieldNames : Has(e, f) => HasDeclaredType(f, e.v[<<f>>])

\* a string that spells a number field f can hold
NumericString(f, v) ==
    /\ v.t = "str" /\ Len(v.v) = 1
    /\ \E p \in ScalarLexemes :
          /\ p[1] = v.v[1]
          /\ \/ FieldType(f) = "float" /\ p[2].t \in {"int", "float"}
             \/ FieldType(f) = "int" /\ p[2].t = "int"

\* e satisfies the schema but for numeric strings in number fields
Convertible(e, major) ==
    /\ IsRecord(e, major)
    /\ \A f \in FieldNames :
          Has(e, f) => (HasDeclaredType(f, e.v[<<f>>]) \/ NumericString(f, e.v[<<f>>]))

\* a value no field f accepts
Unusable(f, v) ==
    \/ v.t \in {"list", "dict"}
    \/ v.t = "null" /\ FieldType(f) # "Optional[str]"
    \/ /\ FieldType(f) \in {"float", "int"} /\ v.t = "str"
       /\ ~(Len(v.v) = 1 /\ \E p \in ScalarLexemes : p[1] = v.v[1] /\ p[2].t \in {"int", "float"})

Malformed(e, major) ==
    \/ ~IsRecord(e, major)
    \/ \E f \in FieldNames : Has(e, f) /\ Unusable(f, e.v[<<f>>])

\* raw is {"sets": [e1, ..., en]}
IsSetsArray == PlainJson /\ HasSets(raw_doc) /\ raw_doc.v[<<"sets">>].t = "list"

====
